---- MODULE Spec2Model ----
(***************************************************************************)
(* A model of the persistent rope of package rope (rope.go, lines 1-258;    *)
(* the lines after them are an older copy of the package, with no length   *)
(* field, and are not modelled).                                           *)
(*                                                                         *)
(* The Go heap is the sequence `heap` of Rope structs; a *Rope is an index *)
(* into it and Nil (0) is the nil pointer.  A Go string is the sequence of *)
(* its bytes; a []rune is a sequence of code points.  Every method of the  *)
(* package is an operator that takes the heap and returns the heap after   *)
(* the call together with the call's results; a run-time panic (nil        *)
(* dereference, index or slice bounds out of range) is the result          *)
(* panic = TRUE.                                                           *)
(***************************************************************************)
EXTENDS Integers, Sequences, FiniteSets

VARIABLES heap, pool, last, calls

vars == <<heap, pool, last, calls>>

(***************************************************************************)
(* Bounds of the model.                                                    *)
(***************************************************************************)
MaxNodes == 6
MaxCalls == 4
MaxArg == 4

Nil == 0

\* The strings handed to New: "" and "aé" (3 bytes, 2 code points).
Strings == { <<>>, <<97, 195, 169>> }

\* The strings handed to Insert: "b".
Inserted == { <<98>> }


Min(a, b) == IF a < b THEN a ELSE b

(***************************************************************************)
(* UTF-8, as utf8.RuneCountInString, []rune(string) and string([]rune) use *)
(* it (overlong forms and surrogates are not told apart from valid ones).  *)
(***************************************************************************)
RuneError == 65533

IsCont(s, k) == k <= Len(s) /\ s[k] >= 128 /\ s[k] <= 191

\* The code point at the head of the non-empty byte string s and its width.
DecodeRune(s) ==
  LET b == s[1] IN
  IF b < 128 THEN [rune |-> b, size |-> 1]
  ELSE IF b >= 192 /\ b <= 223 /\ IsCont(s, 2)
    THEN [rune |-> (b - 192) * 64 + (s[2] - 128), size |-> 2]
  ELSE IF b >= 224 /\ b <= 239 /\ IsCont(s, 2) /\ IsCont(s, 3)
    THEN [rune |-> (b - 224) * 4096 + (s[2] - 128) * 64 + (s[3] - 128), size |-> 3]
  ELSE IF b >= 240 /\ b <= 247 /\ IsCont(s, 2) /\ IsCont(s, 3) /\ IsCont(s, 4)
    THEN [rune |-> (b - 240) * 262144 + (s[2] - 128) * 4096
                     + (s[3] - 128) * 64 + (s[4] - 128), size |-> 4]
  ELSE [rune |-> RuneError, size |-> 1]

RECURSIVE ToRunes(_)
ToRunes(s) ==
  IF s = <<>> THEN <<>>
  ELSE LET d == DecodeRune(s) IN <<d.rune>> \o ToRunes(SubSeq(s, d.size + 1, Len(s)))

RuneCountInString(s) == Len(ToRunes(s))

EncodeRune(r) ==
  IF r < 0 \/ r > 1114111 \/ (r >= 55296 /\ r <= 57343) THEN <<239, 191, 189>>
  ELSE IF r < 128 THEN <<r>>
  ELSE IF r < 2048 THEN <<192 + (r \div 64), 128 + (r % 64)>>
  ELSE IF r < 65536 THEN <<224 + (r \div 4096), 128 + ((r \div 64) % 64), 128 + (r % 64)>>
  ELSE <<240 + (r \div 262144), 128 + ((r \div 4096) % 64),
         128 + ((r \div 64) % 64), 128 + (r % 64)>>

RECURSIVE ToString(_)
ToString(rs) ==
  IF rs = <<>> THEN <<>> ELSE EncodeRune(Head(rs)) \o ToString(Tail(rs))

(***************************************************************************)
(* type Rope struct, New, Len, Concat.                                     *)
(***************************************************************************)
Rope(value, weight, length, left, right) ==
  [value |-> value, weight |-> weight, length |-> length, left |-> left, right |-> right]

isLeaf(h, rope) == h[rope].left = Nil

New(h, bootstrap) ==
  LET len == RuneCountInString(bootstrap) IN
  [h |-> Append(h, Rope(ToRunes(bootstrap), len, len, Nil, Nil)), r |-> Len(h) + 1]

RopeLen(h, rope) == IF rope = Nil THEN 0 ELSE h[rope].length

\* Concat with the weight of the new branch taken from the wrong operand.
ConcatWeightOfOther(h, rope, other) ==
  IF rope = Nil THEN [h |-> h, r |-> other]
  ELSE IF other = Nil THEN [h |-> h, r |-> rope]
  ELSE [h |-> Append(h, Rope(<<>>, RopeLen(h, other),
                             RopeLen(h, rope) + RopeLen(h, other), rope, other)),
        r |-> Len(h) + 1]

Concat(h, rope, other) ==
  IF rope = Nil THEN [h |-> h, r |-> other]
  ELSE IF other = Nil THEN [h |-> h, r |-> rope]
  ELSE [h |-> Append(h, Rope(<<>>, RopeLen(h, rope),
                             RopeLen(h, rope) + RopeLen(h, other), rope, other)),
        r |-> Len(h) + 1]

(***************************************************************************)
(* Index.                                                                  *)
(***************************************************************************)
RECURSIVE Index(_, _, _)
Index(h, rope, idx) ==
  IF rope = Nil THEN [rune |-> 0, panic |-> TRUE]
  ELSE IF isLeaf(h, rope) THEN
    IF idx - 1 < 0 \/ idx - 1 >= Len(h[rope].value) THEN [rune |-> 0, panic |-> TRUE]
    ELSE [rune |-> h[rope].value[idx], panic |-> FALSE]
  ELSE IF idx > h[rope].weight THEN Index(h, h[rope].right, idx - h[rope].weight)
  ELSE Index(h, h[rope].left, idx)

(***************************************************************************)
(* split and Split.  A result is the heap after the call, the two ropes    *)
(* returned and whether the call panicked.                                 *)
(***************************************************************************)
SplitPanic(h) == [h |-> h, first |-> Nil, second |-> Nil, panic |-> TRUE]

\* split cutting a leaf short in place, instead of making a new leaf of its
\* first idx code points.
RECURSIVE splitInPlace(_, _, _)
splitInPlace(h, rope, idx) ==
  IF rope = Nil THEN SplitPanic(h)
  ELSE IF idx = h[rope].weight THEN
    [h |-> h,
     first |-> IF isLeaf(h, rope) THEN rope ELSE h[rope].left,
     second |-> h[rope].right,
     panic |-> FALSE]
  ELSE IF idx > h[rope].weight THEN
    LET s == splitInPlace(h, h[rope].right, idx - h[rope].weight) IN
    IF s.panic THEN s
    ELSE [h |-> Append(s.h, Rope(<<>>, h[rope].weight, 0, h[rope].left, s.first)),
          first |-> Len(s.h) + 1,
          second |-> s.second,
          panic |-> FALSE]
  ELSE IF isLeaf(h, rope) THEN
    LET value == h[rope].value
        h1 == IF idx > 0
              THEN [h EXCEPT ![rope] = Rope(SubSeq(value, 1, idx), idx, idx, Nil, Nil)]
              ELSE h
        lr == IF idx > 0 THEN rope ELSE Nil
    IN IF idx < 0 THEN SplitPanic(h)
       ELSE [h |-> Append(h1, Rope(SubSeq(value, idx + 1, Len(value)),
                                   Len(value) - idx, Len(value) - idx, Nil, Nil)),
             first |-> lr,
             second |-> Len(h1) + 1,
             panic |-> FALSE]
  ELSE
    LET s == splitInPlace(h, h[rope].left, idx) IN
    IF s.panic THEN s
    ELSE LET c == Concat(s.h, s.second, h[rope].right) IN
         [h |-> c.h, first |-> s.first, second |-> c.r, panic |-> FALSE]

RECURSIVE split(_, _, _)
split(h, rope, idx) ==
  IF rope = Nil THEN SplitPanic(h)
  ELSE IF idx = h[rope].weight THEN
    [h |-> h,
     first |-> IF isLeaf(h, rope) THEN rope ELSE h[rope].left,
     second |-> h[rope].right,
     panic |-> FALSE]
  ELSE IF idx > h[rope].weight THEN
    LET s == split(h, h[rope].right, idx - h[rope].weight) IN
    IF s.panic THEN s
    ELSE [h |-> Append(s.h, Rope(<<>>, h[rope].weight, 0, h[rope].left, s.first)),
          first |-> Len(s.h) + 1,
          second |-> s.second,
          panic |-> FALSE]
  ELSE IF isLeaf(h, rope) THEN
    LET value == h[rope].value
        h1 == IF idx > 0 THEN Append(h, Rope(SubSeq(value, 1, idx), idx, idx, Nil, Nil))
              ELSE h
        lr == IF idx > 0 THEN Len(h1) ELSE Nil
    IN IF idx < 0 THEN SplitPanic(h)
       ELSE [h |-> Append(h1, Rope(SubSeq(value, idx + 1, Len(value)),
                                   Len(value) - idx, Len(value) - idx, Nil, Nil)),
             first |-> lr,
             second |-> Len(h1) + 1,
             panic |-> FALSE]
  ELSE
    LET s == split(h, h[rope].left, idx) IN
    IF s.panic THEN s
    ELSE LET c == Concat(s.h, s.second, h[rope].right) IN
         [h |-> c.h, first |-> s.first, second |-> c.r, panic |-> FALSE]

Split(h, rope, idx) ==
  IF rope = Nil THEN [h |-> h, first |-> Nil, second |-> Nil, panic |-> FALSE]
  ELSE IF idx <= 0 THEN [h |-> h, first |-> rope, second |-> Nil, panic |-> FALSE]
  ELSE IF idx >= h[rope].length THEN [h |-> h, first |-> Nil, second |-> rope, panic |-> FALSE]
  ELSE split(h, rope, idx)

(***************************************************************************)
(* Insert and Delete.  The result of a recursive call whose value the code *)
(* drops is dropped here too; its allocations stay in the heap.            *)
(***************************************************************************)
RECURSIVE Insert(_, _, _, _)
Insert(h, rope, idx, str) ==
  IF rope = Nil THEN [h |-> New(h, str).h, r |-> New(h, str).r, panic |-> FALSE]
  ELSE
    LET d1 == IF idx < 0 THEN Insert(h, rope, 0, str)
              ELSE [h |-> h, r |-> Nil, panic |-> FALSE]
        d2 == IF idx > h[rope].length THEN Insert(d1.h, rope, h[rope].length, str)
              ELSE [h |-> d1.h, r |-> Nil, panic |-> FALSE]
        s  == Split(d2.h, rope, idx)
        n  == New(s.h, str)
        c1 == Concat(n.h, s.first, n.r)
        c2 == Concat(c1.h, c1.r, s.second)
    IN IF d1.panic \/ d2.panic \/ s.panic THEN [h |-> h, r |-> Nil, panic |-> TRUE]
       ELSE [h |-> c2.h, r |-> c2.r, panic |-> FALSE]

Delete(h, rope, idx, length) ==
  LET s1 == Split(h, rope, idx - 1)
      s2 == Split(s1.h, s1.second, length)
      c  == Concat(s2.h, s1.first, s2.second)
  IN IF s1.panic \/ s2.panic THEN [h |-> h, r |-> Nil, panic |-> TRUE]
     ELSE [h |-> c.h, r |-> c.r, panic |-> FALSE]

(***************************************************************************)
(* Report and internalReport.  res is a slice of the array buf that Report *)
(* makes: it starts off elements into buf, has n elements and reaches to   *)
(* the end of buf (its capacity is Len(buf) - off).                        *)
(***************************************************************************)
Zeros(n) == [i \in 1..n |-> 0]

\* copy(res, src): the first min(len(res), len(src)) elements of src.
copy(buf, off, n, src) ==
  [i \in 1..Len(buf) |->
     IF i > off /\ i <= off + Min(n, Len(src)) THEN src[i - off] ELSE buf[i]]

RECURSIVE internalReport(_, _, _, _, _, _, _)
internalReport(h, rope, idx, length, buf, off, n) ==
  IF rope = Nil THEN [buf |-> buf, panic |-> TRUE]
  ELSE
    LET weight == h[rope].weight IN
    IF idx > weight THEN
      internalReport(h, h[rope].right, idx - weight, length, buf, off, n)
    ELSE IF weight >= idx + length - 1 THEN
      IF isLeaf(h, rope) THEN
        \* rope.value[idx-1 : idx+length-1]
        IF idx - 1 < 0 \/ idx + length - 1 < idx - 1
             \/ idx + length - 1 > Len(h[rope].value)
        THEN [buf |-> buf, panic |-> TRUE]
        ELSE [buf |-> copy(buf, off, n, SubSeq(h[rope].value, idx, idx + length - 1)),
              panic |-> FALSE]
      ELSE internalReport(h, h[rope].left, idx, length, buf, off, n)
    ELSE
      \* res[:rope.weight] may reach up to the capacity of res
      IF weight < 0 \/ weight > Len(buf) - off THEN [buf |-> buf, panic |-> TRUE]
      ELSE
        LET l == internalReport(h, h[rope].left, idx, weight - idx + 1, buf, off, weight) IN
        IF l.panic THEN l
        \* res[rope.weight:] starts no further than the length of res
        ELSE IF weight > n THEN [buf |-> l.buf, panic |-> TRUE]
        ELSE internalReport(h, h[rope].right, 1, length - weight + idx - 1,
                            l.buf, off + weight, n - weight)

RECURSIVE Report(_, _, _, _)
Report(h, rope, idx, length) ==
  IF rope = Nil THEN [out |-> <<>>, panic |-> FALSE]
  ELSE IF idx > h[rope].length \/ length < 1 THEN [out |-> <<>>, panic |-> FALSE]
  ELSE
    LET d1 == IF idx < 1 THEN Report(h, rope, 1, length).panic ELSE FALSE
        d2 == IF idx + length - 1 > h[rope].length
              THEN Report(h, rope, idx, h[rope].length - idx + 1).panic ELSE FALSE
    IN IF d1 \/ d2 THEN [out |-> <<>>, panic |-> TRUE]
       ELSE LET res == internalReport(h, rope, idx, length, Zeros(length), 0, length) IN
            IF res.panic THEN [out |-> <<>>, panic |-> TRUE]
            ELSE [out |-> ToString(res.buf), panic |-> FALSE]

String(h, rope) ==
  IF rope = Nil THEN [out |-> <<>>, panic |-> TRUE]
  ELSE Report(h, rope, 1, h[rope].length)

Substr(h, rope, idx, length) ==
  IF rope = Nil THEN [h |-> h, r |-> Nil, panic |-> FALSE]
  ELSE IF idx > h[rope].length \/ length < 1 THEN [h |-> h, r |-> Nil, panic |-> FALSE]
  ELSE
    LET d1 == IF idx < 1 THEN Report(h, rope, 1, length).panic ELSE FALSE
        d2 == IF idx + length - 1 > h[rope].length
              THEN Report(h, rope, idx, h[rope].length - idx + 1).panic ELSE FALSE
        s1 == Split(h, rope, idx - 1)
        s2 == Split(s1.h, s1.second, length)
    IN IF d1 \/ d2 \/ s1.panic \/ s2.panic THEN [h |-> h, r |-> Nil, panic |-> TRUE]
       ELSE [h |-> s2.h, r |-> s2.first, panic |-> FALSE]

(***************************************************************************)
(* The program: a caller that holds the ropes in pool (and nil) and calls  *)
(* the methods of the package on them, at most MaxCalls times.  last is    *)
(* the call just made, its arguments and what it returned, until the       *)
(* caller takes the results (Return).                                      *)
(***************************************************************************)
NoCall ==
  [op |-> "none", rope |-> Nil, other |-> Nil, idx |-> 0, length |-> 0, str |-> <<>>,
   r |-> Nil, first |-> Nil, second |-> Nil, out |-> <<>>, rune |-> 0, len |-> 0,
   base |-> 0, panic |-> FALSE]

\* The code points the leaves of rope hold, from left to right.
RECURSIVE Flatten(_, _)
Flatten(h, rope) ==
  IF rope = Nil THEN <<>>
  ELSE IF isLeaf(h, rope) THEN h[rope].value
  ELSE Flatten(h, h[rope].left) \o Flatten(h, h[rope].right)

Held == pool \cup {Nil}

Keep(rs) == pool \cup (rs \ {Nil})

\* The idx arguments the caller hands over with rope: from below the first to
\* above the last position of the text rope holds.  No method reads idx or
\* length on a nil receiver, and none tells a length below 0 from 0.
Idxs(rope) ==
  IF rope = Nil THEN {0} ELSE (0 - 1)..Min(MaxArg, Len(Flatten(heap, rope)) + 1)

Lengths(rope) ==
  IF rope = Nil THEN {0} ELSE 0..Min(MaxArg, Len(Flatten(heap, rope)) + 1)

CanCall == last.op = "none" /\ calls < MaxCalls

Call(op) == [NoCall EXCEPT !.op = op, !.base = Len(heap)]

Init ==
  /\ heap = <<>>
  /\ pool = {}
  /\ last = NoCall
  /\ calls = 0

NewOp ==
  /\ CanCall
  /\ \E str \in Strings :
       LET c == New(heap, str) IN
       /\ Len(c.h) <= MaxNodes
       /\ heap' = c.h
       /\ pool' = Keep({c.r})
       /\ last' = [Call("New") EXCEPT !.str = str, !.r = c.r]
       /\ calls' = calls + 1

LenOp ==
  /\ CanCall
  /\ \E rope \in Held :
       /\ last' = [Call("Len") EXCEPT !.rope = rope, !.len = RopeLen(heap, rope)]
       /\ calls' = calls + 1
       /\ UNCHANGED <<heap, pool>>

StringOp ==
  /\ CanCall
  /\ \E rope \in Held :
       LET c == String(heap, rope) IN
       /\ last' = [Call("String") EXCEPT !.rope = rope, !.out = c.out, !.panic = c.panic]
       /\ calls' = calls + 1
       /\ UNCHANGED <<heap, pool>>

IndexOp ==
  /\ CanCall
  /\ \E rope \in Held :
       \E idx \in Idxs(rope) :
         LET c == Index(heap, rope, idx) IN
         /\ last' = [Call("Index") EXCEPT !.rope = rope, !.idx = idx,
                                          !.rune = c.rune, !.panic = c.panic]
         /\ calls' = calls + 1
         /\ UNCHANGED <<heap, pool>>

ReportOp ==
  /\ CanCall
  /\ \E rope \in Held :
       \E idx \in Idxs(rope), length \in Lengths(rope) :
         LET c == Report(heap, rope, idx, length) IN
         /\ last' = [Call("Report") EXCEPT !.rope = rope, !.idx = idx, !.length = length,
                                           !.out = c.out, !.panic = c.panic]
         /\ calls' = calls + 1
         /\ UNCHANGED <<heap, pool>>

ConcatOp ==
  /\ CanCall
  /\ \E rope \in Held, other \in Held :
       LET c == Concat(heap, rope, other) IN
       /\ Len(c.h) <= MaxNodes
       /\ heap' = c.h
       /\ pool' = Keep({c.r})
       /\ last' = [Call("Concat") EXCEPT !.rope = rope, !.other = other, !.r = c.r]
       /\ calls' = calls + 1

SplitOp ==
  /\ CanCall
  /\ \E rope \in Held :
       \E idx \in Idxs(rope) :
         LET c == Split(heap, rope, idx) IN
         /\ Len(c.h) <= MaxNodes
         /\ heap' = IF c.panic THEN heap ELSE c.h
         /\ pool' = IF c.panic THEN pool ELSE Keep({c.first, c.second})
         /\ last' = [Call("Split") EXCEPT !.rope = rope, !.idx = idx, !.first = c.first,
                                          !.second = c.second, !.panic = c.panic]
         /\ calls' = calls + 1

InsertOp ==
  /\ CanCall
  /\ \E rope \in Held, str \in Inserted :
       \E idx \in Idxs(rope) :
         LET c == Insert(heap, rope, idx, str) IN
         /\ Len(c.h) <= MaxNodes
         /\ heap' = IF c.panic THEN heap ELSE c.h
         /\ pool' = IF c.panic THEN pool ELSE Keep({c.r})
         /\ last' = [Call("Insert") EXCEPT !.rope = rope, !.idx = idx, !.str = str,
                                           !.r = c.r, !.panic = c.panic]
         /\ calls' = calls + 1

DeleteOp ==
  /\ CanCall
  /\ \E rope \in Held :
       \E idx \in Idxs(rope), length \in Lengths(rope) :
         LET c == Delete(heap, rope, idx, length) IN
         /\ Len(c.h) <= MaxNodes
         /\ heap' = IF c.panic THEN heap ELSE c.h
         /\ pool' = IF c.panic THEN pool ELSE Keep({c.r})
         /\ last' = [Call("Delete") EXCEPT !.rope = rope, !.idx = idx, !.length = length,
                                           !.r = c.r, !.panic = c.panic]
         /\ calls' = calls + 1

SubstrOp ==
  /\ CanCall
  /\ \E rope \in Held :
       \E idx \in Idxs(rope), length \in Lengths(rope) :
         LET c == Substr(heap, rope, idx, length) IN
         /\ Len(c.h) <= MaxNodes
         /\ heap' = IF c.panic THEN heap ELSE c.h
         /\ pool' = IF c.panic THEN pool ELSE Keep({c.r})
         /\ last' = [Call("Substr") EXCEPT !.rope = rope, !.idx = idx, !.length = length,
                                           !.r = c.r, !.panic = c.panic]
         /\ calls' = calls + 1

\* The caller takes the results of the call; the ropes returned stay in pool.
Return ==
  /\ last.op # "none"
  /\ last' = NoCall
  /\ UNCHANGED <<heap, pool, calls>>

Next ==
  \/ NewOp
  \/ LenOp
  \/ StringOp
  \/ IndexOp
  \/ ReportOp
  \/ ConcatOp
  \/ SplitOp
  \/ InsertOp
  \/ DeleteOp
  \/ SubstrOp
  \/ Return

Spec == Init /\ [][Next]_vars

(***************************************************************************)
(* The vocabulary of the claims.                                           *)
(***************************************************************************)
\* ToText(rope) = Report(rope, 1, Len(rope)): what String returns for a rope
\* that is not nil, and the empty string for nil.
ToText(h, rope) == Report(h, rope, 1, RopeLen(h, rope)).out

\* The code points of the text of rope.
Text(h, rope) == ToRunes(ToText(h, rope))

\* The bookkeeping of one node.
NodeOK(h, n) ==
  IF isLeaf(h, n)
  THEN /\ h[n].right = Nil
       /\ h[n].length = Len(h[n].value)
       /\ h[n].weight = h[n].length
  ELSE /\ h[n].right # Nil
       /\ h[n].length = h[h[n].left].length + h[h[n].right].length
       /\ h[n].weight = h[h[n].left].length

\* The nodes reachable from rope.
RECURSIVE Nodes(_, _)
Nodes(h, rope) ==
  IF rope = Nil THEN {}
  ELSE {rope} \cup Nodes(h, h[rope].left) \cup Nodes(h, h[rope].right)

WellFormed(h, rope) == \A n \in Nodes(h, rope) : NodeOK(h, n)

\* A rope built from New and Concat alone: New makes the leaves and Concat the
\* branches, so it is a rope, not nil, whose nodes all keep the bookkeeping.
BuiltByNewConcat(h, rope) == rope # Nil /\ WellFormed(h, rope)

\* C1: no operation modifies an existing rope node: across every step every
\* node of the heap keeps its fields, and every rope its text and its Len.
C1_NeverMutated ==
  [][/\ pool \subseteq pool'
     /\ heap' # heap =>
          /\ Len(heap') >= Len(heap)
          /\ \A n \in 1..Len(heap) :
               /\ heap'[n] = heap[n]
               /\ ToText(heap', n) = ToText(heap, n)
               /\ RopeLen(heap', n) = RopeLen(heap, n)]_vars

\* A Split that went down the right of a branch and built a new branch over
\* the left subtree it shares with its input.
C1_Witness ==
  /\ last.op = "Split"
  /\ last.first > last.base
  /\ ~isLeaf(heap, last.first)
  /\ heap[last.first].left = heap[last.rope].left

\* What C4 says of Concat(a, b) = r in heap h, but for which operands the
\* result is an operand and for which it is a new branch.
ConcatTextLen(h, a, b, r) ==
  /\ Text(h, r) = Text(h, a) \o Text(h, b)
  /\ RopeLen(h, r) = RopeLen(h, a) + RopeLen(h, b)

IsNewBranch(h, base, a, b, r) ==
  /\ r = base + 1
  /\ h[r] = Rope(<<>>, RopeLen(h, a), RopeLen(h, a) + RopeLen(h, b), a, b)

ConcatAmended(h, base, a, b, r) ==
  /\ ConcatTextLen(h, a, b, r)
  /\ a = Nil => r = b
  /\ (a # Nil /\ b = Nil) => r = a
  /\ (a # Nil /\ b # Nil) => IsNewBranch(h, base, a, b, r)

\* C4, amended: Concat(a, b) has the text of a followed by the text of b and
\* Len(a) + Len(b); it is b if a is absent, a if b is absent, and otherwise,
\* also when a or b is a rope of length 0, a new branch with left = a,
\* right = b, weight = Len(a) and length = Len(a) + Len(b).
C4_ConcatAmended ==
  last.op = "Concat" => ConcatAmended(heap, last.base, last.rope, last.other, last.r)

\* A Concat whose first operand is a rope of length 0 returned a new branch.
C4_Witness ==
  /\ last.op = "Concat"
  /\ last.rope # Nil /\ RopeLen(heap, last.rope) = 0
  /\ last.other # Nil /\ RopeLen(heap, last.other) > 0
  /\ last.r = Len(heap) /\ last.r > last.base

EmptyOrAbsent(h, rope) == RopeLen(h, rope) = 0

\* C4: as above, but the result is b if a is empty or absent, a if b is empty
\* or absent, and a new branch otherwise.
C4_Concat ==
  last.op = "Concat" /\ WellFormed(heap, last.rope) /\ WellFormed(heap, last.other) =>
    LET a == last.rope
        b == last.other
    IN /\ ConcatTextLen(heap, a, b, last.r)
       /\ (EmptyOrAbsent(heap, a) /\ ~EmptyOrAbsent(heap, b)) => last.r = b
       /\ (~EmptyOrAbsent(heap, a) /\ EmptyOrAbsent(heap, b)) => last.r = a
       /\ (EmptyOrAbsent(heap, a) /\ EmptyOrAbsent(heap, b)) => EmptyOrAbsent(heap, last.r)
       /\ (~EmptyOrAbsent(heap, a) /\ ~EmptyOrAbsent(heap, b)) =>
            IsNewBranch(heap, last.base, a, b, last.r)

\* C2: Split(r, i) of a rope r built from New and Concat, 0 <= i <= Len(r),
\* returns first with the first i code points of r and Len i, and second with
\* the code points after them and Len(r) - i; for i <= 0 second is r and for
\* i >= Len(r) first is r.
C2_Split ==
  (/\ last.op = "Split"
   /\ BuiltByNewConcat(heap, last.rope)
   /\ 0 <= last.idx /\ last.idx <= RopeLen(heap, last.rope)) =>
    LET t == Text(heap, last.rope)
        i == last.idx
    IN /\ ~last.panic
       /\ Text(heap, last.first) = SubSeq(t, 1, i)
       /\ RopeLen(heap, last.first) = i
       /\ Text(heap, last.second) = SubSeq(t, i + 1, Len(t))
       /\ RopeLen(heap, last.second) = RopeLen(heap, last.rope) - i
       /\ (i <= 0 /\ Len(t) > 0) => last.second = last.rope
       /\ (i >= RopeLen(heap, last.rope) /\ Len(t) > 0) => last.first = last.rope

\* C3: for (a, b) = Split(r, i) of a rope r built from New and Concat,
\* 0 <= i <= Len(r), the text of Concat(a, b) is the text of r.
C3_SplitConcat ==
  (/\ last.op = "Split"
   /\ BuiltByNewConcat(heap, last.rope)
   /\ 0 <= last.idx /\ last.idx <= RopeLen(heap, last.rope)) =>
    LET c == Concat(heap, last.first, last.second) IN
    /\ ~last.panic
    /\ ToText(c.h, c.r) = ToText(heap, last.rope)

\* C5: Report(r, i, n) of a rope r built from New and Concat, 1 <= i, n >= 1,
\* i + n - 1 <= Len(r), returns the n code points at positions i..i+n-1 of
\* the text of r.
C5_Report ==
  (/\ last.op = "Report"
   /\ BuiltByNewConcat(heap, last.rope)
   /\ 1 <= last.idx /\ last.length >= 1
   /\ last.idx + last.length - 1 <= RopeLen(heap, last.rope)) =>
    /\ ~last.panic
    /\ ToRunes(last.out)
         = SubSeq(Text(heap, last.rope), last.idx, last.idx + last.length - 1)

C7_Delete ==
  (/\ last.op = "Delete"
   /\ BuiltByNewConcat(heap, last.rope)
   /\ 1 <= last.idx /\ last.length >= 0
   /\ last.idx + last.length - 1 <= RopeLen(heap, last.rope)) =>
    LET t == Text(heap, last.rope) IN
    /\ ~last.panic
    /\ Text(heap, last.r)
         = SubSeq(t, 1, last.idx - 1) \o SubSeq(t, last.idx + last.length, Len(t))

\* C8: Substr(r, i, n), 1 <= i, n >= 1, i + n - 1 <= Len(r), is a rope whose
\* text is the n code points at positions i..i+n-1 of r and whose Len is n.
C8_Substr ==
  (/\ last.op = "Substr"
   /\ BuiltByNewConcat(heap, last.rope)
   /\ 1 <= last.idx /\ last.length >= 1
   /\ last.idx + last.length - 1 <= RopeLen(heap, last.rope)) =>
    /\ ~last.panic
    /\ Text(heap, last.r)
         = SubSeq(Text(heap, last.rope), last.idx, last.idx + last.length - 1)
    /\ RopeLen(heap, last.r) = last.length

\* C9: for every rope r the operations returned and every position i of the
\* code points r holds, Index(r, i) is the i-th of them and is the one code
\* point Report(r, i, 1) returns.
C9_IndexReport ==
  \A r \in pool :
    \A i \in 1..Len(Flatten(heap, r)) :
      /\ Index(heap, r, i) = [rune |-> Flatten(heap, r)[i], panic |-> FALSE]
      /\ Report(heap, r, i, 1)
           = [out |-> EncodeRune(Flatten(heap, r)[i]), panic |-> FALSE]

\* C10: every node reachable from a rope the operations returned keeps the
\* bookkeeping, and the Len of the rope is the number of code points it holds.
C10_Bookkeeping ==
  \A r \in pool :
    /\ WellFormed(heap, r)
    /\ RopeLen(heap, r) = Len(Flatten(heap, r))

====
